---- MODULE Spec2Model ----
(***************************************************************************)
(* Model of the R&DTI tracking pipeline of src/src/index.ts (the second,   *)
(* governing variant of main, lines 192-708): the loaded ticket table, the *)
(* tag propagation loop, the "Sum of WIP hours" rollup, the Results sheet, *)
(* the Transformed Data sheet and the Project Summary sheet.               *)
(*                                                                         *)
(* Text is modelled by what the code does with it:                         *)
(*   - a string that the code splits or prefix-matches on spaces is the    *)
(*     sequence of its space-separated words ("T-1 Build it" is            *)
(*     <<"T-1","Build","it">>, "" is <<>>, a leading space is a leading    *)
(*     empty word);                                                        *)
(*   - a comma-separated field is the sequence of its raw items;           *)
(*   - a duration is the sequence of its <number><unit> tokens;            *)
(*   - hours are counted in minutes, so that m/60 stays an integer.        *)
(***************************************************************************)
EXTENDS Integers, Sequences, FiniteSets, TLC

VARIABLES
    rows,              \* the ticket table, in sheet order (rows / ticketMap share the objects)
    rows0,             \* the table as loaded (history: never written after Init)
    pc,                \* position of main: "propagate", "aggregate", "results", "transform", "summary", "done"
    i,                 \* index of the propagation loop (for ticket of rows)
    processedTickets,  \* Set<string> of keys touched by the propagation loop
    processedCount,    \* processedCount
    results,           \* the Results sheet (data rows)
    transformed,       \* the Transformed Data sheet (data rows)
    summary,           \* the Project Summary sheet (data rows)
    before             \* history: per row, the tags of all rows at the start of the
                       \* loop iteration in which that row received its tag (<<>> if none)

vars == <<rows, rows0, pc, i, processedTickets, processedCount, results, transformed, summary, before>>

---------------------------------------------------------------------------
(* Generic sequence helpers *)

RECURSIVE Flatten(_)
Flatten(ss) ==
    IF ss = <<>> THEN <<>> ELSE Head(ss) \o Flatten(Tail(ss))

RECURSIVE SumSeq(_)
SumSeq(s) ==
    IF s = <<>> THEN 0 ELSE Head(s) + SumSeq(Tail(s))

Range(s) == {s[k] : k \in 1..Len(s)}

Max(a, b) == IF a >= b THEN a ELSE b

\* Indexes of s, in order, whose element satisfies Test (Array.prototype.filter)
FilterIdx(n, Test(_)) ==
    SelectSeq([k \in 1..n |-> k], Test)

MapSeq(s, F(_)) == [k \in 1..Len(s) |-> F(s[k])]

---------------------------------------------------------------------------
(* Text helpers *)

\* String.prototype.trim on a word sequence: leading and trailing empty words go
RECURSIVE TrimLeft(_)
TrimLeft(s) ==
    IF s # <<>> /\ Head(s) = "" THEN TrimLeft(Tail(s)) ELSE s

RECURSIVE TrimRight(_)
TrimRight(s) ==
    IF s # <<>> /\ s[Len(s)] = "" THEN TrimRight(SubSeq(s, 1, Len(s) - 1)) ELSE s

Trim(s) == TrimRight(TrimLeft(s))

\* text.startsWith(prefix + ' '): the words of prefix, then a space, then anything
StartsWithThenSpace(text, prefix) ==
    /\ Len(text) > Len(prefix)
    /\ SubSeq(text, 1, Len(prefix)) = prefix

\* The words of the model's universe that start with "MAP-"
MapPrefixWords == {"MAP-1", "MAP-2", "MAP-3"}

\* key.startsWith('MAP-')
StartsWithMAP(key) ==
    /\ key # <<>>
    /\ key[1] \in MapPrefixWords

---------------------------------------------------------------------------
(* Helpers of main over the table rs (a sequence of ticket records) *)

\* ticketMap[key]: the index of the last row loaded with that key, 0 if none
TicketMap(rs, key) ==
    LET hits == {k \in 1..Len(rs) : rs[k].key = key}
    IN  IF hits = {} THEN 0 ELSE CHOOSE k \in hits : \A j \in hits : j <= k

isMapTicket(t) ==
    /\ t.wtype = "Idea"
    /\ StartsWithMAP(t.key)

\* split(',').map(trim).filter(Boolean)
parseLinkedWorkItems(linked) ==
    IF linked = <<>> THEN <<>>
    ELSE SelectSeq(MapSeq(linked, Trim), LAMBDA item : item # <<>>)

\* The linked keys before the first one that resolves to no ticket
RECURSIVE TakeWhileResolved(_, _)
TakeWhileResolved(rs, items) ==
    IF items = <<>> \/ TicketMap(rs, Head(items)) = 0 THEN <<>>
    ELSE <<Head(items)>> \o TakeWhileResolved(rs, Tail(items))

\* The lookup giving up at the first linked key that resolves to no ticket
findMapTicketsInLinked_StopAtUnresolved(rs, t) ==
    LET linkedItems == TakeWhileResolved(rs, parseLinkedWorkItems(t.linked))
        resolved == MapSeq(linkedItems, LAMBDA itemKey : TicketMap(rs, itemKey))
    IN  SelectSeq(resolved, LAMBDA k : k # 0 /\ isMapTicket(rs[k]))

\* Row indexes of the linked items that resolve to MAP tickets, in linked order
findMapTicketsInLinked(rs, t) ==
    LET linkedItems == parseLinkedWorkItems(t.linked)
        resolved == MapSeq(linkedItems, LAMBDA itemKey : TicketMap(rs, itemKey))
    IN  SelectSeq(resolved, LAMBDA k : k # 0 /\ isMapTicket(rs[k]))

\* The tag of the last linked MAP ticket that has one
getRDTIFromLinkedMap_LastTagged(rs, t) ==
    LET mapTickets == findMapTicketsInLinked(rs, t)
        tagged == SelectSeq(mapTickets, LAMBDA k : rs[k].tag # "")
    IN  IF tagged = <<>> THEN "" ELSE rs[tagged[Len(tagged)]].tag

\* The tag of the first linked MAP ticket that has one, "" for null
getRDTIFromLinkedMap(rs, t) ==
    LET mapTickets == findMapTicketsInLinked(rs, t)
        tagged == SelectSeq(mapTickets, LAMBDA k : rs[k].tag # "")
    IN  IF tagged = <<>> THEN "" ELSE rs[Head(tagged)].tag

\* Row indexes, in table order, of the rows whose Parent starts with key + ' '
getChildren(rs, p) ==
    FilterIdx(Len(rs), LAMBDA k :
        /\ rs[k].parent # <<>>
        /\ StartsWithThenSpace(rs[k].parent, rs[p].key))

\* The descendants with every child listed again ahead of its own descendants
RECURSIVE getAllDescendants_Repeats(_, _)
getAllDescendants_Repeats(rs, p) ==
    LET children == getChildren(rs, p)
    IN  children \o Flatten(MapSeq(children, LAMBDA c :
                        <<c>> \o getAllDescendants_Repeats(rs, c)))

\* The descendants without the recursion: the children alone
getAllDescendants_ChildrenOnly(rs, p) == getChildren(rs, p)

RECURSIVE getAllDescendants(_, _)
getAllDescendants(rs, p) ==
    LET children == getChildren(rs, p)
    IN  children \o Flatten(MapSeq(children, LAMBDA c : getAllDescendants(rs, c)))

---------------------------------------------------------------------------
(* The parent relation of a table is acyclic: following children from any  *)
(* row never comes back to it (what the traversals assume)                 *)

ChildRel(rs) ==
    {pr \in (1..Len(rs)) \X (1..Len(rs)) :
        /\ rs[pr[2]].parent # <<>>
        /\ StartsWithThenSpace(rs[pr[2]].parent, rs[pr[1]].key)}

RECURSIVE Reach(_, _, _)
Reach(rel, frontier, seen) ==
    LET next == {pr[2] : pr \in {q \in rel : q[1] \in frontier}} \ seen
    IN  IF next = {} THEN seen ELSE Reach(rel, next, seen \cup next)

DescendantSet(rs, p) == Reach(ChildRel(rs), {p}, {})

Acyclic(rs) == \A p \in 1..Len(rs) : p \notin DescendantSet(rs, p)

UniqueKeys(rs) ==
    \A a, b \in 1..Len(rs) : rs[a].key = rs[b].key => a = b

---------------------------------------------------------------------------
(* Tag propagation: main, "Process tickets with new logic" *)

\* The sweep without its guard (!descendant['R&DTI Activity'])
RECURSIVE SweepDescendants_Overwrite(_, _, _)
SweepDescendants_Overwrite(st, descendants, val) ==
    IF descendants = <<>> THEN st
    ELSE LET d == Head(descendants)
         IN  SweepDescendants_Overwrite(
                 [rows      |-> [st.rows EXCEPT ![d].tag = val],
                  processed |-> st.processed \cup {st.rows[d].key},
                  count     |-> st.count + 1],
                 Tail(descendants), val)

\* The descendant sweep: every descendant without a tag gets val, in list order
RECURSIVE SweepDescendants(_, _, _)
SweepDescendants(st, descendants, val) ==
    IF descendants = <<>> THEN st
    ELSE LET d == Head(descendants)
             st2 == IF st.rows[d].tag = ""
                    THEN [rows      |-> [st.rows EXCEPT ![d].tag = val],
                          processed |-> st.processed \cup {st.rows[d].key},
                          count     |-> st.count + 1]
                    ELSE st
         IN  SweepDescendants(st2, Tail(descendants), val)

\* One iteration of the loop (for ticket of rows) on row idx
PropagateTicket(st, idx) ==
    LET ticket == st.rows[idx]
        rdtiFromLinkedMap == getRDTIFromLinkedMap(st.rows, ticket)
    IN  IF ticket.key \in st.processed THEN st
        ELSE IF ticket.tag # "" THEN st
        ELSE IF isMapTicket(ticket) THEN st
        ELSE IF rdtiFromLinkedMap = "" THEN st
        ELSE SweepDescendants(
                 [rows      |-> [st.rows EXCEPT ![idx].tag = rdtiFromLinkedMap],
                  processed |-> st.processed \cup {ticket.key},
                  count     |-> st.count + 1],
                 getAllDescendants(st.rows, idx),
                 rdtiFromLinkedMap)

\* The whole loop over a table, from a fresh processedTickets set
RECURSIVE PropagateFrom(_, _)
PropagateFrom(st, idx) ==
    IF idx > Len(st.rows) THEN st
    ELSE PropagateFrom(PropagateTicket(st, idx), idx + 1)

RunPropagation(rs) ==
    PropagateFrom([rows |-> rs, processed |-> {}, count |-> 0], 1)

Tags(rs) == [k \in 1..Len(rs) |-> rs[k].tag]

\* The loop going on with the row of the visited ticket's first resolved linked
\* item instead of the next row of the table
Propagate_FollowsLinks ==
    /\ pc = "propagate"
    /\ i <= Len(rows)
    /\ LET st == PropagateTicket(
                     [rows |-> rows, processed |-> processedTickets, count |-> processedCount], i)
           resolved == SelectSeq(parseLinkedWorkItems(rows[i].linked),
                                 LAMBDA l : TicketMap(rows, l) # 0)
       IN  /\ rows' = st.rows
           /\ processedTickets' = st.processed
           /\ processedCount' = st.count
           /\ before' = [k \in 1..Len(rows) |->
                           IF rows[k].tag = "" /\ st.rows[k].tag # ""
                           THEN Tags(rows) ELSE before[k]]
           /\ i' = IF resolved # <<>> THEN TicketMap(rows, Head(resolved)) ELSE i + 1
           /\ pc' = IF resolved = <<>> /\ i = Len(rows) THEN "aggregate" ELSE "propagate"
    /\ UNCHANGED <<rows0, results, transformed, summary>>

Propagate ==
    /\ pc = "propagate"
    /\ i <= Len(rows)
    /\ LET st == PropagateTicket(
                     [rows |-> rows, processed |-> processedTickets, count |-> processedCount], i)
       IN  /\ rows' = st.rows
           /\ processedTickets' = st.processed
           /\ processedCount' = st.count
           /\ before' = [k \in 1..Len(rows) |->
                           IF rows[k].tag = "" /\ st.rows[k].tag # ""
                           THEN Tags(rows) ELSE before[k]]
    /\ i' = i + 1
    /\ pc' = IF i = Len(rows) THEN "aggregate" ELSE "propagate"
    /\ UNCHANGED <<rows0, results, transformed, summary>>

---------------------------------------------------------------------------
(* Durations and people *)

HoursPerDay == 8

MinutesPerHour == 60

\* One <number><unit> token of the duration text, in minutes; text that the
\* regular expression does not match (any other unit) adds nothing
TokenMinutes(tok) ==
    CASE tok.u = "d" -> tok.n * HoursPerDay * MinutesPerHour
      [] tok.u = "h" -> tok.n * MinutesPerHour
      [] tok.u = "m" -> tok.n
      [] OTHER       -> 0

\* parseTimeToHours, in minutes
parseTimeToHours(timeStr) ==
    IF timeStr = <<>> THEN 0
    ELSE SumSeq(MapSeq(timeStr, TokenMinutes))

\* mob.trim() === '' (a comma makes the text non-blank)
BlankItems(items) ==
    \/ items = <<>>
    \/ Len(items) = 1 /\ Trim(items[1]) = <<>>

\* mob.split(',').map(trim).filter(name => name !== '')
MobPeople(mob) ==
    SelectSeq(MapSeq(mob, Trim), LAMBDA name : name # <<>>)

\* assignee && assignee.trim() !== '' && assignee.trim() !== 'Unassigned'
HasAssignee(assignee) ==
    /\ assignee # <<>>
    /\ Trim(assignee) # <<>>
    /\ Trim(assignee) # <<"Unassigned">>

getPeopleCount(t) ==
    IF ~BlankItems(t.mob) THEN Len(MobPeople(t.mob))
    ELSE IF HasAssignee(t.assignee) THEN 1
    ELSE 1

\* getWIPHours with Math.min in place of Math.max
RECURSIVE getWIPHours_Min(_, _)
getWIPHours_Min(rs, p) ==
    LET ticket == rs[p]
        baseHours == parseTimeToHours(ticket.dur)
        peopleCount == getPeopleCount(ticket)
        ticketHours == baseHours * peopleCount
        children == getChildren(rs, p)
        childrenHaveHours == \E k \in 1..Len(children) :
                                 parseTimeToHours(rs[children[k]].dur) > 0
        totalPeopleFromChildren ==
            SumSeq(MapSeq(children, LAMBDA c : getPeopleCount(rs[c])))
        childrenSum == SumSeq(MapSeq(children, LAMBDA c : getWIPHours_Min(rs, c)))
    IN  IF children = <<>> THEN ticketHours
        ELSE IF ~childrenHaveHours /\ baseHours > 0 /\ totalPeopleFromChildren > peopleCount
             THEN baseHours * totalPeopleFromChildren
        ELSE IF ticketHours <= childrenSum THEN ticketHours ELSE childrenSum

RECURSIVE getWIPHours(_, _)
getWIPHours(rs, p) ==
    LET ticket == rs[p]
        baseHours == parseTimeToHours(ticket.dur)
        peopleCount == getPeopleCount(ticket)
        ticketHours == baseHours * peopleCount
        children == getChildren(rs, p)
        childrenHaveHours == \E k \in 1..Len(children) :
                                 parseTimeToHours(rs[children[k]].dur) > 0
        totalPeopleFromChildren ==
            SumSeq(MapSeq(children, LAMBDA c : getPeopleCount(rs[c])))
        childrenSum == SumSeq(MapSeq(children, LAMBDA c : getWIPHours(rs, c)))
    IN  IF children = <<>> THEN ticketHours
        ELSE IF ~childrenHaveHours /\ baseHours > 0 /\ totalPeopleFromChildren > peopleCount
             THEN baseHours * totalPeopleFromChildren
        ELSE Max(ticketHours, childrenSum)

---------------------------------------------------------------------------
(* Sum of WIP hours: main, "Calculate Sum of WIP hours for MAP tickets" *)

\* collectAllDescendants of the rollup (lines 415-427): a Set of keys
RECURSIVE collectAllDescendants(_, _)
collectAllDescendants(rs, p) ==
    UNION {{rs[c].key} \cup collectAllDescendants(rs, c) : c \in Range(getChildren(rs, p))}

\* The first pass collecting the children of the linked items only
RollupAllDescendants_ChildrenOnly(rs, linkedItems) ==
    UNION {{rs[c].key : c \in Range(getChildren(rs, TicketMap(rs, linkedId)))} :
             linkedId \in {l \in Range(linkedItems) :
                              /\ TicketMap(rs, l) # 0
                              /\ ~isMapTicket(rs[TicketMap(rs, l)])}}

\* First pass: the descendants of every linked item that is not a MAP ticket
RollupAllDescendants(rs, linkedItems) ==
    UNION {collectAllDescendants(rs, TicketMap(rs, linkedId)) :
             linkedId \in {l \in Range(linkedItems) :
                              /\ TicketMap(rs, l) # 0
                              /\ ~isMapTicket(rs[TicketMap(rs, l)])}}

\* Second pass: the linked ids whose WIP hours are added, in linked order
RollupCounted(rs, linkedItems) ==
    LET allDescendants == RollupAllDescendants(rs, linkedItems)
    IN  SelectSeq(linkedItems, LAMBDA linkedId :
            LET l == TicketMap(rs, linkedId)
            IN  /\ l # 0
                /\ linkedId \notin allDescendants
                /\ (~isMapTicket(rs[l]) \/ rs[l].tag = ""))

totalWIPHours(rs, linkedItems) ==
    SumSeq(MapSeq(RollupCounted(rs, linkedItems),
                  LAMBDA linkedId : getWIPHours(rs, TicketMap(rs, linkedId))))

\* One iteration of the rollup loop on row idx
SumOfWIPHours(rs, idx) ==
    LET ticket == rs[idx]
    IN  IF isMapTicket(ticket) /\ ticket.tag # ""
        THEN totalWIPHours(rs, parseLinkedWorkItems(ticket.linked))
        ELSE 0

\* The rollup loop clearing the duration column as it stores the sum
RECURSIVE AggregateFrom_WrongColumn(_, _)
AggregateFrom_WrongColumn(rs, idx) ==
    IF idx > Len(rs) THEN rs
    ELSE AggregateFrom_WrongColumn(
             [rs EXCEPT ![idx].sum = <<SumOfWIPHours(rs, idx)>>,
                        ![idx].dur = <<>>], idx + 1)

RECURSIVE AggregateFrom(_, _)
AggregateFrom(rs, idx) ==
    IF idx > Len(rs) THEN rs
    ELSE AggregateFrom([rs EXCEPT ![idx].sum = <<SumOfWIPHours(rs, idx)>>], idx + 1)

Aggregate ==
    /\ pc = "aggregate"
    /\ rows' = AggregateFrom(rows, 1)
    /\ pc' = "results"
    /\ UNCHANGED <<rows0, i, processedTickets, processedCount, results, transformed, summary, before>>

---------------------------------------------------------------------------
(* The Results sheet: one row per ticket, columnOrder.map(key => row[key] || '') *)

\* text || ''
OrEmptyText(v) == IF v = <<>> THEN <<>> ELSE v

\* tag || ''
OrEmptyTag(v) == IF v = "" THEN "" ELSE v

\* number || '' : 0 and undefined are written as the empty cell
OrEmptyNumber(v) == IF v = <<>> \/ v = <<0>> THEN <<>> ELSE v

ResultRow(t) ==
    [key      |-> OrEmptyText(t.key),
     parent   |-> OrEmptyText(t.parent),
     linked   |-> OrEmptyText(t.linked),
     tag      |-> OrEmptyTag(t.tag),
     wtype    |-> OrEmptyTag(t.wtype),
     dur      |-> OrEmptyText(t.dur),
     mob      |-> OrEmptyText(t.mob),
     assignee |-> OrEmptyText(t.assignee),
     sum      |-> OrEmptyNumber(t.sum)]

WriteResults ==
    /\ pc = "results"
    /\ results' = MapSeq(rows, ResultRow)
    /\ pc' = "transform"
    /\ UNCHANGED <<rows, rows0, i, processedTickets, processedCount, transformed, summary, before>>

---------------------------------------------------------------------------
(* Contributors: the Transformed Data sheet *)

\* A contributor credited with half the duration (hours split between two people)
Contributor_SplitHours(rdtiActivity, who, baseHours, key) ==
    [project      |-> rdtiActivity,
     who          |-> who,
     role         |-> "Employee",
     activityType |-> IF rdtiActivity = "Platform" THEN "Support" ELSE "Core",
     hoursCost    |-> baseHours \div 2,
     phase        |-> "Development",
     workItem     |-> key]

Contributor(rdtiActivity, who, baseHours, key) ==
    [project      |-> rdtiActivity,
     who          |-> who,
     role         |-> "Employee",
     activityType |-> IF rdtiActivity = "Platform" THEN "Support" ELSE "Core",
     hoursCost    |-> baseHours,
     phase        |-> "Development",
     workItem     |-> key]

RECURSIVE collectContributors(_, _, _)
collectContributors(rs, p, rdtiActivity) ==
    LET ticket == rs[p]
        baseHours == parseTimeToHours(ticket.dur)
        own == IF ~BlankItems(ticket.mob)
               THEN MapSeq(MobPeople(ticket.mob), LAMBDA person :
                        Contributor(rdtiActivity, person, baseHours, ticket.key))
               ELSE IF HasAssignee(ticket.assignee)
               THEN <<Contributor(rdtiActivity, ticket.assignee, baseHours, ticket.key)>>
               ELSE <<>>
        children == getChildren(rs, p)
    IN  own \o Flatten(MapSeq(children, LAMBDA c : collectContributors(rs, c, rdtiActivity)))

\* collectAllDescendants of the resolver (lines 584-595): a Set of keys
RECURSIVE collectAllDescendantsOfLinked(_, _)
collectAllDescendantsOfLinked(rs, p) ==
    UNION {{rs[c].key} \cup collectAllDescendantsOfLinked(rs, c) :
             c \in Range(getChildren(rs, p))}

\* The resolver without the skip of linked items that are descendants of others
TraceExpanded_NoExclusion(rs, linkedItems) ==
    SelectSeq(linkedItems, LAMBDA linkedId :
        LET l == TicketMap(rs, linkedId)
        IN  /\ l # 0
            /\ (~isMapTicket(rs[l]) \/ rs[l].tag = ""))

\* The linked ids whose subtrees the resolver expands, in linked order
TraceExpanded(rs, linkedItems) ==
    LET allDescendants ==
            UNION {collectAllDescendantsOfLinked(rs, TicketMap(rs, linkedId)) :
                     linkedId \in {l \in Range(linkedItems) :
                                      /\ TicketMap(rs, l) # 0
                                      /\ ~isMapTicket(rs[TicketMap(rs, l)])}}
    IN  SelectSeq(linkedItems, LAMBDA linkedId :
            LET l == TicketMap(rs, linkedId)
            IN  /\ l # 0
                /\ linkedId \notin allDescendants
                /\ (~isMapTicket(rs[l]) \/ rs[l].tag = ""))

traceContributorsFromLinkedItems(rs, idx) ==
    LET mapTicket == rs[idx]
        rdtiActivity == mapTicket.tag
        linkedItems == parseLinkedWorkItems(mapTicket.linked)
    IN  IF rdtiActivity = "" THEN <<>>
        ELSE Flatten(MapSeq(TraceExpanded(rs, linkedItems), LAMBDA linkedId :
                 collectContributors(rs, TicketMap(rs, linkedId), rdtiActivity)))

\* The contributors of every MAP ticket with a tag, in table order, those with hours
ContributorsWithHours(rs) ==
    Flatten(MapSeq([k \in 1..Len(rs) |-> k], LAMBDA k :
        IF isMapTicket(rs[k]) /\ rs[k].tag # ""
        THEN SelectSeq(traceContributorsFromLinkedItems(rs, k),
                       LAMBDA contributor : contributor.hoursCost > 0)
        ELSE <<>>))

Transform ==
    /\ pc = "transform"
    /\ transformed' = ContributorsWithHours(rows)
    /\ pc' = "summary"
    /\ UNCHANGED <<rows, rows0, i, processedTickets, processedCount, results, summary, before>>

---------------------------------------------------------------------------
(* The Project Summary sheet *)

\* The pieces of a text around each '|' it contains
PipePieces(text) ==
    CASE text = "Core|QA"  -> <<"Core", "|", "QA">>
      [] text = "QA|Alice" -> <<"QA", "|", "Alice">>
      [] OTHER             -> <<text>>

\* The pieces of a text of several words: its words, a " " between two words
RECURSIVE WordPieces(_)
WordPieces(wordSeq) ==
    IF wordSeq = <<>> THEN <<>>
    ELSE IF Len(wordSeq) = 1 THEN PipePieces(wordSeq[1])
    ELSE PipePieces(wordSeq[1]) \o <<" ">> \o WordPieces(Tail(wordSeq))

\* `${contributor.project}|${contributor.who}`
SummaryKey(contributor) ==
    PipePieces(contributor.project) \o <<"|">> \o WordPieces(contributor.who)

\* aggregatedData after one more contributor: a Map, in insertion order
AddToAggregated(agg, contributor) ==
    LET key == SummaryKey(contributor)
        at == {k \in 1..Len(agg) : agg[k].key = key}
    IN  IF at # {}
        THEN LET k == CHOOSE x \in at : TRUE
             IN  [agg EXCEPT
                    ![k].totalHours = @ + contributor.hoursCost,
                    ![k].workItems = IF contributor.workItem \in Range(@)
                                     THEN @ ELSE Append(@, contributor.workItem)]
        ELSE Append(agg, [key          |-> key,
                          project      |-> contributor.project,
                          who          |-> contributor.who,
                          role         |-> contributor.role,
                          activityType |-> contributor.activityType,
                          totalHours   |-> contributor.hoursCost,
                          phase        |-> contributor.phase,
                          workItems    |-> <<contributor.workItem>>])

RECURSIVE AggregateContributors(_, _)
AggregateContributors(agg, contributors) ==
    IF contributors = <<>> THEN agg
    ELSE AggregateContributors(AddToAggregated(agg, Head(contributors)), Tail(contributors))

\* The texts of the model's universe in localeCompare order
LocaleOrder ==
    <<"", "Alice", "Bob", "Carol", "Core", "Core|QA", "Legacy", "Platform",
      "QA|Alice", "Research", "Unassigned">>

LocaleRank(text) == CHOOSE k \in 1..Len(LocaleOrder) : LocaleOrder[k] = text

\* a.localeCompare(b) < 0 for two person texts (compared word by word)
RECURSIVE WordsBefore(_, _)
WordsBefore(a, b) ==
    IF b = <<>> THEN FALSE
    ELSE IF a = <<>> THEN TRUE
    ELSE IF Head(a) # Head(b) THEN LocaleRank(Head(a)) < LocaleRank(Head(b))
    ELSE WordsBefore(Tail(a), Tail(b))

\* The comparator of sortedData
SummaryBefore(a, b) ==
    IF a.project # b.project THEN LocaleRank(a.project) < LocaleRank(b.project)
    ELSE WordsBefore(a.who, b.who)

RECURSIVE InsertSorted(_, _)
InsertSorted(sorted, e) ==
    IF sorted = <<>> THEN <<e>>
    ELSE IF SummaryBefore(e, Head(sorted)) THEN <<e>> \o sorted
    ELSE <<Head(sorted)>> \o InsertSorted(Tail(sorted), e)

RECURSIVE SortSummary(_)
SortSummary(entries) ==
    IF entries = <<>> THEN <<>>
    ELSE InsertSorted(SortSummary(SubSeq(entries, 1, Len(entries) - 1)), entries[Len(entries)])

SummaryRow(data) ==
    [project      |-> data.project,
     who          |-> data.who,
     role         |-> data.role,
     activityType |-> data.activityType,
     totalHours   |-> data.totalHours,
     phase        |-> data.phase,
     workItems    |-> data.workItems]

Summarise ==
    /\ pc = "summary"
    /\ summary' = MapSeq(SortSummary(AggregateContributors(<<>>, ContributorsWithHours(rows))),
                         SummaryRow)
    /\ pc' = "done"
    /\ UNCHANGED <<rows, rows0, i, processedTickets, processedCount, results, transformed, before>>

Next ==
    \/ Propagate
    \/ Aggregate
    \/ WriteResults
    \/ Transform
    \/ Summarise

---------------------------------------------------------------------------
(* The loaded tables: the state of main after the sheet has been read *)

M1 == <<"MAP-1">>

M2 == <<"MAP-2">>

T1 == <<"T-1">>

T2 == <<"T-2">>

T3 == <<"T-3">>

\* A key that no row of the table carries
Missing == <<"T-9">>

\* The Parent text of a child of the ticket with that key: "KEY Build it"
ChildOf(key) == key \o <<"Build", "it">>

\* A linked item after a comma and a space: ", KEY"
Spaced(key) == <<"">> \o key

Hours(n) == [n |-> n, u |-> "h"]

Minutes(n) == [n |-> n, u |-> "m"]

Days(n) == [n |-> n, u |-> "d"]

Ticket(key, wtype, parent, linked, tag, dur, mob, assignee) ==
    [key |-> key, wtype |-> wtype, parent |-> parent, linked |-> linked, tag |-> tag,
     dur |-> dur, mob |-> mob, assignee |-> assignee, sum |-> <<>>]

\* The table orders tried: permutations of a four-row listing
AllOrders ==
    <<  <<1, 2, 3, 4>>, <<4, 3, 2, 1>>, <<3, 1, 4, 2>>, <<2, 4, 1, 3>>,
        <<1, 3, 2, 4>>, <<4, 2, 3, 1>>  >>

MaxOrders == 2

TableOrders == {AllOrders[k] : k \in 1..MaxOrders}

Reorder(listing, order) == [k \in 1..Len(order) |-> listing[order[k]]]

StartState(table) ==
    /\ rows = table
    /\ rows0 = table
    /\ pc = "propagate"
    /\ i = 1
    /\ processedTickets = {}
    /\ processedCount = 0
    /\ results = <<>>
    /\ transformed = <<>>
    /\ summary = <<>>
    /\ before = [k \in 1..Len(table) |-> <<>>]

\* What a work ticket may list as linked work items in the propagation tables
PropLinkChoices(other) ==
    { <<>>, <<M1>>, <<M2>>, <<M2, Spaced(M1)>>, <<Missing, Spaced(other), Spaced(M1)>> }

\* Tables for the propagation: two MAP-keyed rows and two work tickets, any
\* acyclic parent relation among the last three, native tags, links to MAP tickets
PropTables ==
    { Reorder(<<
          Ticket(M1, "Idea", <<>>, <<>>, m1tag, <<>>, <<>>, <<>>),
          Ticket(T1, "Idea", t1parent, t1linked, t1tag, <<Hours(2)>>, <<>>, <<"Carol">>),
          Ticket(T2, "Story", t2parent, t2linked, t2tag, <<Hours(1), Minutes(30)>>,
                 << <<"Alice">>, <<"", "Bob">> >>, <<>>),
          Ticket(M2, m2type, m2parent, <<>>, m2tag, <<>>, <<>>, <<"Unassigned">>)
      >>, order) :
        order \in TableOrders,
        m1tag \in {"", "Platform"},
        m2type \in {"Idea", "Story"},
        m2tag \in {"", "Research"},
        m2parent \in {<<>>, ChildOf(T1), ChildOf(T2)},
        t1parent \in {<<>>, ChildOf(T2), ChildOf(M2)},
        t1linked \in PropLinkChoices(T2),
        t1tag \in {"", "Legacy"},
        t2parent \in {<<>>, ChildOf(T1), ChildOf(M2)},
        t2linked \in PropLinkChoices(T1),
        t2tag \in {"", "Legacy"} }

InitProp ==
    \E table \in PropTables :
        /\ UniqueKeys(table)
        /\ Acyclic(table)
        /\ StartState(table)

SpecProp == InitProp /\ [][Next]_vars

---------------------------------------------------------------------------
(* Properties of the tag propagation *)

Idx == 1..Len(rows)

PropagationDone == pc # "propagate"

\* The tag of every key of a table
TagByKey(rs) == {<<rs[k].key, rs[k].tag>> : k \in 1..Len(rs)}

\* Row p got its tag from the propagation loop
Received(p) == rows0[p].tag = "" /\ rows[p].tag # ""

NoOverwriteStep ==
    \A k \in Idx : rows[k].tag # "" => rows'[k].tag = rows[k].tag

\* C1 (no-overwrite): a ticket whose R&DTI Activity is non-empty when the table is
\* loaded has the same value in every later state, and no step of the run changes
\* a tag that is non-empty, whether it was loaded or set by the propagation.
C1_NoOverwrite ==
    /\ [](\A k \in Idx : rows0[k].tag # "" => rows[k].tag = rows0[k].tag)
    /\ [][NoOverwriteStep]_vars

\* C1 witness: the propagation has ended, a ticket received a tag, and one of its
\* descendants still carries the different tag it was loaded with.
C1_Witness ==
    /\ PropagationDone
    /\ \E p \in Idx : \E d \in DescendantSet(rows, p) :
          /\ Received(p)
          /\ rows0[d].tag # ""
          /\ rows[d].tag = rows0[d].tag
          /\ rows[d].tag # rows[p].tag

\* C2 (idempotence of tagging): once the propagation pass has ended, running the
\* pass again on the resulting table changes no ticket's activityTag.
C2_Idempotent ==
    PropagationDone => Tags(RunPropagation(rows).rows) = Tags(rows)

\* C3 (descendant coverage): after the propagation, every descendant of a ticket
\* that received its tag during the propagation carries a non-empty tag, and that
\* tag is the ticket's tag unless the descendant already carried a tag before the
\* loop iteration in which the ticket received its own.
C3_DescendantCoverage ==
    PropagationDone =>
        \A p \in Idx : Received(p) =>
            \A d \in DescendantSet(rows, p) :
                /\ rows[d].tag # ""
                /\ (rows[d].tag = rows[p].tag \/ before[p][d] # "")

\* C3 witness: after the propagation a ticket that received its tag has a
\* grandchild that received the same tag and another descendant that kept an
\* earlier, different tag.
C3_Witness ==
    /\ PropagationDone
    /\ \E p \in Idx : \E c \in Range(getChildren(rows, p)) :
         \E g \in Range(getChildren(rows, c)) : \E d \in DescendantSet(rows, p) :
          /\ Received(p)
          /\ Received(g)
          /\ rows[g].tag = rows[p].tag
          /\ before[p][d] # ""
          /\ rows[d].tag # rows[p].tag

\* The orders of a table of n rows
Orders(n) == {q \in [1..n -> 1..n] : \A a, b \in 1..n : q[a] = q[b] => a = b}

\* The link relation of a table (row to the rows its linked items resolve to)
LinkRel(rs) ==
    {pr \in (1..Len(rs)) \X (1..Len(rs)) :
        \E l \in Range(parseLinkedWorkItems(rs[pr[1]].linked)) : TicketMap(rs, l) = pr[2]}

LinkAcyclic(rs) ==
    \A p \in 1..Len(rs) : p \notin Reach(LinkRel(rs), {p}, {})

\* C9 (order-independence): for a table whose parent and link relations are
\* acyclic, when the propagation pass has ended the tag of every ticket is the one
\* that the pass assigns from the loaded table in every other order of its rows.
C9_OrderIndependent ==
    (pc = "aggregate" /\ Acyclic(rows0) /\ LinkAcyclic(rows0)) =>
        \A q \in Orders(Len(rows0)) :
            TagByKey(RunPropagation(Reorder(rows0, q)).rows) = TagByKey(rows)

\* C10 (tag completeness): when the propagation has ended, every ticket that is not
\* an activity ticket and has a linked activity ticket carrying a tag carries a tag
\* itself, and so does every descendant of a ticket that received its tag.
C10_TagComplete ==
    PropagationDone =>
        /\ \A k \in Idx :
              (~isMapTicket(rows[k]) /\ getRDTIFromLinkedMap(rows, rows[k]) # "")
                  => rows[k].tag # ""
        /\ \A p \in Idx : Received(p) =>
              \A d \in DescendantSet(rows, p) : rows[d].tag # ""

---------------------------------------------------------------------------
(* Tables for the effort rollup: a tagged MAP ticket linking work tickets   *)
(* that form trees of depth up to two, with varied durations and people    *)

MaxHours == 2

DurChoices == {<<>>} \cup {<<Hours(n)>> : n \in 1..MaxHours}

\* [mob, assignee]: one assignee, or a mob of two
PeopleChoices ==
    { [mob |-> <<>>, assignee |-> <<"Carol">>],
      [mob |-> << <<"Alice">>, <<"", "Bob">> >>, assignee |-> <<"Carol">>] }

EffortLinkChoices ==
    { <<T1>>, <<T1, Spaced(T2)>>, <<T2, Spaced(T1)>>, <<T3, Spaced(T1)>>,
      <<T2, Spaced(T3)>>, <<T1, Spaced(M2)>>, <<M2, Spaced(T3)>>,
      <<Missing, Spaced(T2), Spaced(T2)>>, <<T1, Spaced(T2), Spaced(T3)>> }

EffortTables ==
    { << Ticket(M1, "Idea", <<>>, m1linked, "Platform", <<>>, <<>>, <<>>),
         Ticket(T1, "Story", <<>>, <<M1>>, "", t1dur, <<>>, <<"Carol">>),
         Ticket(T2, "Story", t2parent, <<>>, "", t2dur, t2people.mob, t2people.assignee),
         Ticket(T3, "Story", t3parent, <<>>, "", t3dur, <<>>, <<"Unassigned">>),
         Ticket(M2, "Idea", m2parent, <<>>, m2tag,
                <<[n |-> 1, u |-> "w"], Hours(1)>>, <<>>, <<"Bob">>) >> :
        m1linked \in EffortLinkChoices,
        m2tag \in {"", "Core"},
        m2parent \in {<<>>, ChildOf(T1)},
        t2parent \in {<<>>, ChildOf(T1)},
        t3parent \in {<<>>, ChildOf(T1), ChildOf(T2), ChildOf(M2)},
        t1dur \in DurChoices,
        t2dur \in {<<>>, <<Hours(1)>>, <<Hours(2)>>},
        t3dur \in {<<>>, <<Hours(3)>>},
        t2people \in PeopleChoices }

InitEffort ==
    \E table \in EffortTables :
        /\ UniqueKeys(table)
        /\ Acyclic(table)
        /\ StartState(table)

SpecEffort == InitEffort /\ [][Next]_vars

---------------------------------------------------------------------------
(* Properties of the effort rollup *)

RollupDone == pc \in {"results", "transform", "summary", "done"}

TaggedMap(k) == isMapTicket(rows[k]) /\ rows[k].tag # ""

\* linkedItems without every occurrence of key
Without(linkedItems, key) == SelectSeq(linkedItems, LAMBDA l : l # key)

\* The linked ids X, Y of row a where X is a ticket that is not an activity
\* ticket and Y is a descendant of X
LinkedWithDescendant(a) ==
    LET linkedItems == parseLinkedWorkItems(rows[a].linked)
    IN  {xy \in Range(linkedItems) \X Range(linkedItems) :
            LET x == TicketMap(rows, xy[1])
                y == TicketMap(rows, xy[2])
            IN  /\ x # 0
                /\ y # 0
                /\ ~isMapTicket(rows[x])
                /\ y \in DescendantSet(rows, x)}

\* C4 (double-count exclusion): once the rollup has run, for a tagged activity
\* ticket that links a non-activity ticket X and a descendant Y of X, the stored
\* Sum of WIP hours is the sum computed from the same linked items without Y, and
\* Y is not among the linked items whose hours were added.
C4_DoubleCountExclusion ==
    RollupDone =>
        \A a \in Idx : TaggedMap(a) =>
            \A xy \in LinkedWithDescendant(a) :
                LET linkedItems == parseLinkedWorkItems(rows[a].linked)
                IN  /\ rows[a].sum = <<totalWIPHours(rows, Without(linkedItems, xy[2]))>>
                    /\ xy[2] \notin Range(RollupCounted(rows, linkedItems))

\* C4 witness: the rollup has run for a tagged activity ticket that links X after
\* its descendant Y, Y has hours of its own, and the stored sum is not zero.
C4_Witness ==
    /\ RollupDone
    /\ \E a \in Idx : \E xy \in LinkedWithDescendant(a) :
          LET linkedItems == parseLinkedWorkItems(rows[a].linked)
          IN  /\ TaggedMap(a)
              /\ linkedItems[1] = xy[2]
              /\ getWIPHours(rows, TicketMap(rows, xy[2])) > 0
              /\ rows[a].sum # <<0>>

ChildrenSum(p) ==
    SumSeq(MapSeq(getChildren(rows, p), LAMBDA c : getWIPHours(rows, c)))

\* The redistribution case of getWIPHours: no child has a duration of its own,
\* the ticket has one, and the children count more people than the ticket
Redistributes(p) ==
    LET children == getChildren(rows, p)
    IN  /\ \A k \in 1..Len(children) : parseTimeToHours(rows[children[k]].dur) = 0
        /\ parseTimeToHours(rows[p].dur) > 0
        /\ SumSeq(MapSeq(children, LAMBDA c : getPeopleCount(rows[c]))) > getPeopleCount(rows[p])

\* C5 (subtree effort lower bound, as claimed): the WIP hours of every ticket that
\* has a child are at least the sum of the WIP hours of its children.
C5_LowerBound ==
    \A p \in Idx : getChildren(rows, p) # <<>> => getWIPHours(rows, p) >= ChildrenSum(p)

\* C5 (amended): the WIP hours of every ticket that has a child and to which the
\* redistribution case does not apply are at least the sum of the WIP hours of its
\* children; in the redistribution case they are the ticket's own duration times
\* the people of its children.
C5_LowerBoundOutsideRedistribution ==
    \A p \in Idx : getChildren(rows, p) # <<>> =>
        IF Redistributes(p)
        THEN getWIPHours(rows, p) =
                 parseTimeToHours(rows[p].dur)
                   * SumSeq(MapSeq(getChildren(rows, p), LAMBDA c : getPeopleCount(rows[c])))
        ELSE getWIPHours(rows, p) >= ChildrenSum(p)

\* C5 witness: the rollup has stored the hours of a linked ticket whose children
\* sum to more than its own hours, outside the redistribution case.
C5_Witness ==
    /\ RollupDone
    /\ \E a \in Idx : \E p \in Idx :
          /\ TaggedMap(a)
          /\ parseLinkedWorkItems(rows[a].linked) = <<rows[p].key>>
          /\ getChildren(rows, p) # <<>>
          /\ ~Redistributes(p)
          /\ parseTimeToHours(rows[p].dur) > 0
          /\ ChildrenSum(p) > parseTimeToHours(rows[p].dur) * getPeopleCount(rows[p])
          /\ rows[a].sum = <<ChildrenSum(p)>>

---------------------------------------------------------------------------
(* Tables for the contributor sheets: two MAP tickets with their own tags    *)
(* and links, work tickets in a chain, assignees and mobs                  *)

ContribTables ==
    { << Ticket(M1, "Idea", <<>>, m1linked, m1tag, <<>>, <<>>, <<>>),
         Ticket(T1, "Story", <<>>, <<M1>>, "", t1dur, t1people.mob, t1people.assignee),
         Ticket(T2, "Story", t2parent, <<>>, "", t2dur, <<>>, t2assignee),
         Ticket(T3, "Story", t3parent, <<>>, "", <<Hours(1), Minutes(30)>>,
                t3people.mob, t3people.assignee),
         Ticket(M2, "Idea", <<>>, m2linked, m2tag, <<Hours(1)>>, <<>>, <<"Bob">>) >> :
        m1linked \in { <<T1>>, <<T2, Spaced(T1)>>, <<M2, Spaced(T3)>>,
                       <<Missing, Spaced(T1), Spaced(T1)>> },
        m1tag \in {"Platform", "Core|QA"},
        m2linked \in { <<>>, <<T2>> },
        m2tag \in {"", "Core"},
        t2parent \in {<<>>, ChildOf(T1)},
        t3parent \in {<<>>, ChildOf(T2)},
        t1dur \in DurChoices,
        t2dur \in {<<>>, <<Hours(2)>>},
        t1people \in { [mob |-> <<>>, assignee |-> <<"Carol">>],
                       [mob |-> <<>>, assignee |-> <<"Alice">>],
                       [mob |-> << <<"Alice">>, <<"", "Bob">> >>, assignee |-> <<"Carol">>] },
        t2assignee \in { <<"Alice">>, <<"QA|Alice">> },
        t3people \in { [mob |-> <<>>, assignee |-> <<"Unassigned">>],
                       [mob |-> << <<"Alice">> >>, assignee |-> <<>>],
                       [mob |-> << <<>>, <<"">> >>, assignee |-> <<"Carol">>] } }

InitContrib ==
    \E table \in ContribTables :
        /\ UniqueKeys(table)
        /\ Acyclic(table)
        /\ StartState(table)

SpecContrib == InitContrib /\ [][Next]_vars

---------------------------------------------------------------------------
(* Properties of the contributor sheets *)

TransformDone == pc \in {"summary", "done"}

\* The rows in the subtrees of the linked items of row a that the rollup counts
RollupSubtrees(a) ==
    UNION {{TicketMap(rows, l)} \cup DescendantSet(rows, TicketMap(rows, l)) :
             l \in Range(RollupCounted(rows, parseLinkedWorkItems(rows[a].linked)))}

\* The people a ticket credits: the names listed in a non-empty mob, else the
\* assignee when there is one who is not 'Unassigned'
PersonsOf(t) ==
    IF ~BlankItems(t.mob)
    THEN {Trim(t.mob[k]) : k \in {j \in 1..Len(t.mob) : Trim(t.mob[j]) # <<>>}}
    ELSE IF t.assignee # <<>> /\ Trim(t.assignee) \notin {<<>>, <<"Unassigned">>}
         THEN {t.assignee}
    ELSE {}

ExpectedTransformed ==
    { [project      |-> rows[a].tag,
       who          |-> person,
       role         |-> "Employee",
       activityType |-> IF rows[a].tag = "Platform" THEN "Support" ELSE "Core",
       hoursCost    |-> parseTimeToHours(rows[t].dur),
       phase        |-> "Development",
       workItem     |-> rows[t].key] :
        <<a, t, person>> \in
            { atp \in Idx \X Idx \X UNION {PersonsOf(rows[k]) : k \in Idx} :
                /\ TaggedMap(atp[1])
                /\ atp[2] \in RollupSubtrees(atp[1])
                /\ atp[3] \in PersonsOf(rows[atp[2]])
                /\ parseTimeToHours(rows[atp[2]].dur) > 0 } }

Pairs == {<<transformed[k].project, transformed[k].who>> : k \in 1..Len(transformed)}

RowsOfPair(pair) ==
    SelectSeq(transformed, LAMBDA r : r.project = pair[1] /\ r.who = pair[2])

\* C7 (aggregation grouping): the Project Summary sheet has exactly one row per
\* (activity, person) pair of the Transformed Data rows; its total is the sum of
\* the hours of the rows of that pair and its work items are their work items.
C7_AggregationGrouping ==
    pc = "done" =>
        /\ Len(summary) = Cardinality(Pairs)
        /\ \A pair \in Pairs :
              \E k \in 1..Len(summary) :
                  /\ summary[k].project = pair[1]
                  /\ summary[k].who = pair[2]
                  /\ summary[k].totalHours =
                         SumSeq(MapSeq(RowsOfPair(pair), LAMBDA r : r.hoursCost))
                  /\ Range(summary[k].workItems) =
                         {r.workItem : r \in Range(RowsOfPair(pair))}

---------------------------------------------------------------------------
(* Frame of the pipeline *)

\* The loaded columns other than R&DTI Activity and Sum of WIP hours
Pass(t) ==
    [key |-> t.key, wtype |-> t.wtype, parent |-> t.parent, linked |-> t.linked,
     dur |-> t.dur, mob |-> t.mob, assignee |-> t.assignee]

FrameStep ==
    /\ Len(rows') = Len(rows)
    /\ \A k \in Idx : Pass(rows'[k]) = Pass(rows[k])
    /\ pc = "propagate" => \A k \in Idx : rows'[k].sum = rows[k].sum
    /\ pc = "aggregate" => \A k \in Idx : rows'[k].tag = rows[k].tag
    /\ pc \in {"results", "transform", "summary"} => rows' = rows

\* C8 (frame): the propagation changes no column but R&DTI Activity, the rollup
\* none but Sum of WIP hours, the later stages none; no stage adds, removes or
\* reorders tickets; and the Results sheet, once written, lists every loaded row
\* once, in the loaded order, with its other columns as loaded and the tag and the
\* sum of the table.
C8_Frame ==
    /\ [][FrameStep]_vars
    /\ [](pc \in {"transform", "summary", "done"} =>
            /\ Len(results) = Len(rows0)
            /\ \A k \in 1..Len(rows0) :
                  /\ Pass(results[k]) = Pass(rows0[k])
                  /\ results[k].tag = rows[k].tag
                  /\ (results[k].sum = rows[k].sum
                        \/ (results[k].sum = <<>> /\ rows[k].sum = <<0>>)))

\* C8 witness: the run has ended, the propagation gave a ticket a tag, the rollup
\* stored a sum that is not zero, and the Results sheet shows both.
C8_Witness ==
    /\ pc = "done"
    /\ \E k \in Idx : rows0[k].tag = "" /\ results[k].tag # ""
    /\ \E k \in Idx : rows[k].sum \notin {<<>>, <<0>>} /\ results[k].sum = rows[k].sum
    /\ \E k \in Idx : rows[k].sum = <<0>>

---------------------------------------------------------------------------
(* Attribution of effort in the rollup *)

\* The rows whose effort a summed linked id brings in: its ticket and descendants
CountedSubtree(linkedId) ==
    {TicketMap(rows, linkedId)} \cup DescendantSet(rows, TicketMap(rows, linkedId))

\* C11 (single attribution): once the rollup has run, for every tagged activity
\* ticket the linked items whose WIP hours were added to its sum have pairwise
\* disjoint subtrees (two summed entries of the linked list never share a ticket),
\* whatever the linked list holds: repeated keys, untagged activity tickets with
\* linked children.
C11_SingleAttribution ==
    RollupDone =>
        \A a \in Idx : TaggedMap(a) =>
            LET counted == RollupCounted(rows, parseLinkedWorkItems(rows[a].linked))
            IN  \A j, k \in 1..Len(counted) :
                    j # k => CountedSubtree(counted[j]) \cap CountedSubtree(counted[k]) = {}

---------------------------------------------------------------------------
(* Agreement of the rollup and the contributor resolver *)

\* The contributors with hours of the linked items that the rollup counted for row a
ContributorsOfCounted(a) ==
    SelectSeq(
        Flatten(MapSeq(RollupCounted(rows, parseLinkedWorkItems(rows[a].linked)),
                       LAMBDA linkedId :
                           collectContributors(rows, TicketMap(rows, linkedId), rows[a].tag))),
        LAMBDA contributor : contributor.hoursCost > 0)

\* C12 (aggregator/resolver agreement): for every tagged activity ticket, on the
\* tags left by the propagation, the linked items whose subtrees the resolver
\* expands are exactly those whose WIP hours the rollup added: the stored sum is
\* the sum over the resolver's items, and the Transformed Data sheet holds the
\* contributors of the rollup's items.
C12_AggregatorResolverAgreement ==
    /\ RollupDone =>
          \A a \in Idx : TaggedMap(a) =>
              LET linkedItems == parseLinkedWorkItems(rows[a].linked)
                  expanded == TraceExpanded(rows, linkedItems)
              IN  /\ expanded = RollupCounted(rows, linkedItems)
                  /\ rows[a].sum =
                         <<SumSeq(MapSeq(expanded, LAMBDA linkedId :
                                      getWIPHours(rows, TicketMap(rows, linkedId))))>>
    /\ TransformDone =>
          transformed =
              Flatten(MapSeq([k \in 1..Len(rows) |-> k], LAMBDA k :
                  IF TaggedMap(k) THEN ContributorsOfCounted(k) ELSE <<>>))

\* C12 witness: both sheets are written for a tagged activity ticket whose linked
\* list holds a resolved item that neither stage takes and one that both take,
\* with a sum that is not zero and a contributor row of that ticket's tag.
C12_Witness ==
    /\ TransformDone
    /\ \E a \in Idx :
          LET linkedItems == parseLinkedWorkItems(rows[a].linked)
              expanded == TraceExpanded(rows, linkedItems)
          IN  /\ TaggedMap(a)
              /\ expanded # <<>>
              /\ \E l \in Range(linkedItems) :
                    TicketMap(rows, l) # 0 /\ l \notin Range(expanded)
              /\ rows[a].sum \notin {<<>>, <<0>>}
              /\ \E r \in Range(transformed) : r.project = rows[a].tag

---------------------------------------------------------------------------
(* Tables with link cycles, self-links and data gaps: linked keys and Parent   *)
(* texts that match no ticket, over an acyclic parent relation               *)

LinkTables ==
    { << Ticket(M1, "Idea", <<>>, m1linked, "Platform", <<>>, <<>>, <<>>),
         Ticket(T1, "Story", t1parent, t1linked, "", t1dur, <<>>, <<"Carol">>),
         Ticket(T2, "Story", t2parent, t2linked, "", <<Hours(1)>>,
                << <<"Alice">>, <<"", "Bob">> >>, <<>>),
         Ticket(T3, "Story", t3parent, t3linked, "", <<Hours(3)>>, <<>>, <<"Alice">>),
         Ticket(M2, "Idea", <<>>, <<M1>>, m2tag, <<Hours(1)>>, <<>>, <<"Bob">>) >> :
        m1linked \in { <<M1, Spaced(T1)>>, <<M2, Spaced(T1)>>,
                       <<Missing, Spaced(T1), Spaced(M2)>>, <<T2, Spaced(Missing)>> },
        m2tag \in {"", "Core"},
        t1parent \in {<<>>, ChildOf(Missing)},
        t1linked \in { <<T1, Spaced(M1)>>, <<T2>>, <<Missing, Spaced(M1)>>, <<Missing>> },
        t1dur \in DurChoices,
        t2parent \in {<<>>, ChildOf(T1), ChildOf(Missing)},
        t2linked \in { <<>>, <<T1>>, <<M2, Spaced(Missing), Spaced(M1)>> },
        t3parent \in {<<>>, ChildOf(T2), ChildOf(M2)},
        t3linked \in { <<>>, <<Missing>> } }

InitLinks ==
    \E table \in LinkTables :
        /\ UniqueKeys(table)
        /\ Acyclic(table)
        /\ StartState(table)

SpecLinks == InitLinks /\ [][Next]_vars

---------------------------------------------------------------------------
(* Termination *)

\* The recursion over children started at row p (getAllDescendants, getWIPHours,
\* collectAllDescendants, collectContributors) returns within depth nested calls
RECURSIVE TraversalEnds(_, _, _)
TraversalEnds(rs, p, depth) ==
    LET children == getChildren(rs, p)
    IN  \/ children = <<>>
        \/ /\ depth > 0
           /\ \A c \in Range(children) : TraversalEnds(rs, c, depth - 1)

\* The stages of main that are still to run after the one pc names
StagesLeft ==
    CASE pc = "propagate" -> 5
      [] pc = "aggregate" -> 4
      [] pc = "results"   -> 3
      [] pc = "transform" -> 2
      [] pc = "summary"   -> 1
      [] OTHER            -> 0

\* What is left of the run: the rows the propagation loop has not visited, then
\* the later stages
StepsLeft ==
    (IF pc = "propagate" THEN Len(rows) + 1 - i ELSE 0) + StagesLeft

\* The guard of the stage that pc names holds: main can take its next step
CanStep ==
    \/ pc = "propagate" /\ i <= Len(rows)
    \/ pc \in {"aggregate", "results", "transform", "summary"}

\* C13 (termination): for a table whose parent relation is acyclic, whatever its
\* links (cycles and self-links included), the recursion over children from every
\* ticket returns within as many nested calls as there are tickets, every step of
\* the run lowers the number of steps left, which is never negative, and the run
\* can always take a step until it has written its last sheet.
C13_Termination ==
    /\ [](\A p \in Idx : TraversalEnds(rows, p, Len(rows)))
    /\ [](StepsLeft >= 0 /\ (pc = "done" \/ CanStep))
    /\ [][StepsLeft' < StepsLeft]_vars

\* C13 witness: the run has ended on a table in which a ticket links itself, two
\* tickets link each other, a ticket has a grandchild, the propagation gave a
\* tag and the rollup stored a sum that is not zero.
C13_Witness ==
    /\ pc = "done"
    /\ \E p \in Idx : <<p, p>> \in LinkRel(rows0)
    /\ \E p, q \in Idx : p # q /\ <<p, q>> \in LinkRel(rows0) /\ <<q, p>> \in LinkRel(rows0)
    /\ \E p \in Idx : \E c \in Range(getChildren(rows, p)) : getChildren(rows, c) # <<>>
    /\ \E p \in Idx : Received(p)
    /\ \E a \in Idx : rows[a].sum \notin {<<>>, <<0>>}

---------------------------------------------------------------------------
(* Data gaps *)

\* What main computes from a loaded table: the tags, the sums and the two
\* contributor sheets
Outcome(rs) ==
    LET tagged == RunPropagation(rs).rows
        summed == AggregateFrom(tagged, 1)
        contributors == ContributorsWithHours(summed)
    IN  [tags        |-> Tags(summed),
         sums        |-> [k \in 1..Len(summed) |-> summed[k].sum],
         transformed |-> contributors,
         summary     |-> MapSeq(SortSummary(AggregateContributors(<<>>, contributors)),
                                SummaryRow)]

\* The places <<row, item>> of the linked lists whose key resolves to no ticket
UnresolvedAt(rs) ==
    {kj \in (1..Len(rs)) \X (1..3) :
        /\ kj[2] <= Len(rs[kj[1]].linked)
        /\ Trim(rs[kj[1]].linked[kj[2]]) # <<>>
        /\ TicketMap(rs, Trim(rs[kj[1]].linked[kj[2]])) = 0}

\* The table with item j taken out of the linked list of row k
RemoveItem(rs, k, j) ==
    [rs EXCEPT ![k].linked = SubSeq(@, 1, j - 1) \o SubSeq(@, j + 1, Len(@))]

\* A Parent text that is not empty and matches no ticket of the table
OrphanParent(rs, k) ==
    /\ rs[k].parent # <<>>
    /\ \A p \in 1..Len(rs) : <<p, k>> \notin ChildRel(rs)

---------------------------------------------------------------------------
(* Tables for the descendant enumeration: a key of one word or of two, and   *)
(* Parent texts that start with one key or with two                        *)

\* The Parent text "KEY task"
Under(key) == key \o <<"task">>

\* The key "T-1 Build"
T1Build == <<"T-1", "Build">>

T4 == <<"T-4">>

\* The tables whose third row has the key tbkey
TreeTablesWith(tbkey) ==
    { << Ticket(M1, "Idea", <<>>, m1linked, "Platform", <<>>, <<>>, <<>>),
         Ticket(T1, "Story", <<>>, <<M1>>, "", <<Hours(1)>>, <<>>, <<"Carol">>),
         Ticket(tbkey, "Story", tbparent, <<>>, tbtag, tbdur, <<>>, <<"Bob">>),
         Ticket(T2, "Story", t2parent, <<>>, "", t2dur,
                << <<"Alice">>, <<"", "Bob">> >>, <<>>),
         Ticket(T3, "Story", t3parent, <<>>, "", <<Hours(3)>>, <<>>, <<"Alice">>) >> :
        m1linked \in { <<T1>>, <<T1, Spaced(T2)>> },
        tbparent \in {<<>>, Under(T1)},
        tbtag \in {"", "Legacy"},
        tbdur \in DurChoices,
        t2parent \in {<<>>, ChildOf(T1), Under(T1), Under(tbkey), Under(T3)},
        t2dur \in DurChoices,
        t3parent \in {<<>>, ChildOf(T1), Under(T2), Under(tbkey)} }

TreeTables == TreeTablesWith(T1Build) \cup TreeTablesWith(T4)

InitTree ==
    \E table \in TreeTables :
        /\ UniqueKeys(table)
        /\ Acyclic(table)
        /\ StartState(table)

SpecTree == InitTree /\ [][Next]_vars

---------------------------------------------------------------------------
(* Descendant enumeration *)

NoRepeats(s) == \A j, k \in 1..Len(s) : s[j] = s[k] => j = k

\* No row is a child of two rows
SingleParent(rs) ==
    \A c \in 1..Len(rs) : Cardinality({p \in 1..Len(rs) : <<p, c>> \in ChildRel(rs)}) <= 1

\* No key has a space in it
OneWordKeys(rs) == \A k \in 1..Len(rs) : Len(rs[k].key) = 1

\* C15 (descendant enumeration, as claimed): for a table with unique keys and an
\* acyclic parent relation, getAllDescendants of every ticket lists the tickets of
\* the transitive closure of its children, each exactly once, and no other (read
\* on the table the propagation has gone through).
C15_DescendantEnumeration ==
    (PropagationDone /\ UniqueKeys(rows) /\ Acyclic(rows)) =>
        \A p \in Idx :
            /\ Range(getAllDescendants(rows, p)) = DescendantSet(rows, p)
            /\ NoRepeats(getAllDescendants(rows, p))

\* C15 (amended): for a table with unique keys and an acyclic parent relation,
\* getAllDescendants of every ticket lists the tickets of the transitive closure
\* of its children and no other, each at least once; each exactly once when no
\* ticket is a child of two tickets, which is the case when no key has a space.
C15_DescendantEnumerationSingleParent ==
    (UniqueKeys(rows) /\ Acyclic(rows)) =>
        /\ \A p \in Idx : Range(getAllDescendants(rows, p)) = DescendantSet(rows, p)
        /\ SingleParent(rows) => \A p \in Idx : NoRepeats(getAllDescendants(rows, p))
        /\ OneWordKeys(rows) => SingleParent(rows)

\* C15 witness: the propagation has ended on a table where no ticket is a child
\* of two, one key has two words, and a ticket that received its tag has a child
\* and a grandchild that both received it in the sweep of its descendants.
C15_Witness ==
    /\ PropagationDone
    /\ SingleParent(rows)
    /\ ~OneWordKeys(rows)
    /\ \E p \in Idx : \E c \in Range(getChildren(rows, p)) :
         \E g \in Range(getChildren(rows, c)) :
            /\ Received(p)
            /\ Received(c)
            /\ Received(g)
            /\ Len(getAllDescendants(rows, p)) >= 3

---------------------------------------------------------------------------
(* Provenance of the tags *)

\* The tag of the activity ticket that comes first, in the order of the linked
\* list of ticket t, among those that carry a tag in table rs ("" if none does)
FirstTaggedActivityTag(rs, t) ==
    LET linkedItems == parseLinkedWorkItems(t.linked)
        hits == {j \in 1..Len(linkedItems) :
                    LET m == TicketMap(rs, linkedItems[j])
                    IN  m # 0 /\ isMapTicket(rs[m]) /\ rs[m].tag # ""}
        first == CHOOSE j \in hits : \A h \in hits : j <= h
    IN  IF hits = {} THEN "" ELSE rs[TicketMap(rs, linkedItems[first])].tag

\* A step of the propagation: the visited ticket takes the tag of the first
\* tagged activity ticket of its own linked list, and any other ticket that
\* receives a tag is a descendant of the visited ticket and receives the same
ProvenanceStep ==
    pc = "propagate" =>
        /\ (rows[i].tag = "" /\ rows'[i].tag # "") =>
               /\ ~isMapTicket(rows[i])
               /\ rows'[i].tag = FirstTaggedActivityTag(rows, rows[i])
        /\ \A k \in Idx \ {i} : (rows[k].tag = "" /\ rows'[k].tag # "") =>
               /\ rows[i].tag = ""
               /\ k \in DescendantSet(rows, i)
               /\ rows'[k].tag = rows'[i].tag

\* C16 (tag provenance): in every state of the run a non-empty tag of a ticket
\* is the tag that ticket was loaded with or a tag that an activity ticket (type
\* Idea, key starting with MAP-) was loaded with; a ticket tagged from its own
\* linked list gets the tag of the first tagged activity ticket in the order of
\* that list, and a ticket tagged otherwise gets the tag of the ancestor visited
\* in that step.
C16_TagProvenance ==
    /\ [](\A k \in Idx : rows[k].tag # "" =>
              \/ rows[k].tag = rows0[k].tag
              \/ \E m \in Idx : isMapTicket(rows0[m]) /\ rows0[m].tag = rows[k].tag)
    /\ [][ProvenanceStep]_vars

\* C16 witness: the propagation has ended, a ticket without a parent received
\* the tag of the first of two linked activity tickets that carried different
\* tags, and a descendant of it received the same tag.
C16_Witness ==
    /\ PropagationDone
    /\ \E k \in Idx :
          LET mapTickets == findMapTicketsInLinked(rows, rows[k])
          IN  /\ Received(k)
              /\ rows[k].parent = <<>>
              /\ Len(mapTickets) >= 2
              /\ before[k][mapTickets[1]] # ""
              /\ before[k][mapTickets[2]] # ""
              /\ before[k][mapTickets[1]] # before[k][mapTickets[2]]
              /\ rows[k].tag = before[k][mapTickets[1]]
              /\ \E d \in DescendantSet(rows, k) : Received(d) /\ rows[d].tag = rows[k].tag

====
